---- MODULE Spec2Model ----
(***************************************************************************)
(* Model of channel_asset_mapper.py: the reference-table loader, the       *)
(* chunked CSV reader with its strict/fallback attempts, the row matcher,  *)
(* the per-file loop of the main script and the final aggregation.         *)
(*                                                                         *)
(* Strings are sequences of one-character strings; "NBSP" stands for the   *)
(* character U+00A0.  A missing cell (pandas NaN) is the value NaN.        *)
(***************************************************************************)
EXTENDS Integers, Sequences, FiniteSets, TLC

\* ------------------------------------------------------------------ bounds

\* Largest total number of rows over all the CSV files of a run of Spec.
MaxTotalRows == 2

\* Largest chunk size (rows per batch) a run is given.
MaxChunkSize == 2

\* Largest number of rows of the reference table in SpecLoad.
MaxTableRows == 2

\* --------------------------------------------------------- program constants

MAX_CSV_FILES == 12

ASSET_COL_IDX == 3

CHANNEL_COL_IDX == 6

\* ----------------------------------------------------------------- strings

\* The characters of the model in code-point order (Python compares str by
\* code point): ' ' < '1' < '2' < 'A' < 'B' < 'N' < 'X' < 'Y' < 'a' < 'n' < U+00A0.
CharOrder == <<" ", "1", "2", "A", "B", "N", "X", "Y", "a", "n", "NBSP">>

Ord(c) == CHOOSE k \in 1..Len(CharOrder) : CharOrder[k] = c

\* A missing cell: dtype=str leaves it the float NaN.
NaN == <<"NaN">>

\* Series.astype(str): NaN becomes the string 'nan'.
AsTypeStr(cell) == IF cell = NaN THEN <<"n", "a", "n">> ELSE cell

\* .str.replace("\xa0", " ")
ReplaceNbsp(s) == [k \in 1..Len(s) |-> IF s[k] = "NBSP" THEN " " ELSE s[k]]

\* str.isspace of one character of the model.
IsSpace(c) == c \in {" ", "NBSP"}

RECURSIVE LStrip(_)
LStrip(s) ==
    IF s = <<>> THEN s
    ELSE IF IsSpace(Head(s)) THEN LStrip(Tail(s)) ELSE s

RECURSIVE RStrip(_)
RStrip(s) ==
    IF s = <<>> THEN s
    ELSE IF IsSpace(s[Len(s)]) THEN RStrip(SubSeq(s, 1, Len(s) - 1)) ELSE s

\* .str.strip()
Strip(s) == RStrip(LStrip(s))

\* .astype(str).str.replace("\xa0", " ").str.strip()
Clean(cell) == Strip(ReplaceNbsp(AsTypeStr(cell)))

LowerChar(c) ==
    CASE c = "A" -> "a"
      [] c = "B" -> "b"
      [] c = "N" -> "n"
      [] c = "X" -> "x"
      [] c = "Y" -> "y"
      [] OTHER -> c

\* str.lower()
Lower(s) == [k \in 1..Len(s) |-> LowerChar(s[k])]

\* Python's str < str.
RECURSIVE StrLess(_, _)
StrLess(a, b) ==
    IF b = <<>> THEN FALSE
    ELSE IF a = <<>> THEN TRUE
    ELSE IF Head(a) = Head(b) THEN StrLess(Tail(a), Tail(b))
    ELSE Ord(Head(a)) < Ord(Head(b))

\* ------------------------------------------------------- load_channel_data

EmptyDict == [k \in {} |-> <<>>]

DictSet(d, key, val) == [k \in DOMAIN d \cup {key} |-> IF k = key THEN val ELSE d[k]]

\* The test of line 96 on one cleaned (cid, cname).
KeepsNanUpperCase(cid, cname) ==
    /\ cid # <<>>
    /\ cid # <<"n", "a", "n">>
    /\ cname # <<>>
    /\ cname # <<"n", "a", "n">>

KeepEntry(cid, cname) ==
    /\ cid # <<>>
    /\ Lower(cid) # <<"n", "a", "n">>
    /\ cname # <<>>
    /\ Lower(cname) # <<"n", "a", "n">>

\* The loop of lines 94-97 over rows k.. of the table, from dictionary d.
RECURSIVE BuildDict(_, _, _)
BuildDict(rows, k, d) ==
    IF k > Len(rows) THEN d
    ELSE LET cid == Clean(rows[k].id)
             cname == Clean(rows[k].name)
         IN  BuildDict(rows, k + 1,
                       IF KeepEntry(cid, cname) THEN DictSet(d, cid, cname) ELSE d)

\* excel: [readable, ncols, rows]; an unreadable file raises inside the try
\* and the handler returns {}.
LoadChannelData(excel) ==
    IF ~excel.readable THEN EmptyDict
    ELSE IF excel.ncols < 2 THEN EmptyDict
    ELSE BuildDict(excel.rows, 1, EmptyDict)

\* ------------------------------------------- process_csv_for_channel_assets

Max(a, b) == IF a >= b THEN a ELSE b

RECURSIVE Concat(_)
Concat(ss) == IF ss = <<>> THEN <<>> ELSE Head(ss) \o Concat(Tail(ss))

\* One row of a chunk after both columns are cleaned (lines 128-141).
CleanRow(row) == [asset |-> Clean(row.asset), channel |-> Clean(row.channel)]

\* The record of a retained row when the identifier column is cleaned only
\* for the membership test and the raw cell is projected.
MatchRecordRawChannel(row, channel_dict) ==
    [asset   |-> Clean(row.asset),
     channel |-> AsTypeStr(row.channel),
     name    |-> channel_dict[Clean(row.channel)]]

\* The record of a retained row (lines 150-154).
MatchRecord(row, channel_dict) ==
    [asset   |-> CleanRow(row).asset,
     channel |-> CleanRow(row).channel,
     name    |-> channel_dict[CleanRow(row).channel]]

\* The body of the loop over one chunk (lines 124-156): the subset appended to
\* results, <<>> when the chunk is skipped or nothing matches.
ProcessChunk(rows, ncols, channel_dict) ==
    IF ncols <= Max(ASSET_COL_IDX, CHANNEL_COL_IDX) THEN <<>>
    ELSE LET filtered == SelectSeq(rows,
                 LAMBDA r : CleanRow(r).channel \in DOMAIN channel_dict)
         IN  [k \in 1..Len(filtered) |-> MatchRecord(filtered[k], channel_dict)]

\* results after one more chunk: an empty subset is not appended (146-147).
AppendChunk(results, subset) ==
    IF subset = <<>> THEN results ELSE Append(results, subset)

\* What process_csv_for_channel_assets returns: None, or the concatenation.
None == [none |-> TRUE, df |-> <<>>]

Some(df) == [none |-> FALSE, df |-> df]

\* The exception handler keeping what was matched so far.
OnExceptionKeepPartial(results) ==
    IF results = <<>> THEN None ELSE Some(Concat(results))

\* Lines 158-160: the handler returns None.
OnException(results) == None

\* Lines 162-165.
OnCompletion(results) ==
    IF results = <<>> THEN None ELSE Some(Concat(results))

\* ------------------------------------------------ iter_chunks_with_fallback

CeilDiv(n, c) == (n + c - 1) \div c

\* Number of chunks of a file of n rows read chunksize rows at a time.
NChunks(n, chunksize) == CeilDiv(n, chunksize)

\* The row indices of chunk number k (from 1).
ChunkIdx(n, chunksize, k) ==
    LET lo == (k - 1) * chunksize + 1
        hi == IF k * chunksize < n THEN k * chunksize ELSE n
    IN  [j \in 1..(hi - lo + 1) |-> lo + j - 1]

ChunkRows(rows, chunksize, k) ==
    LET idx == ChunkIdx(Len(rows), chunksize, k)
    IN  [j \in 1..Len(idx) |-> rows[idx[j]]]

\* ------------------------------------------------------------- aggregation

\* drop_duplicates(subset=["Asset ID", "Channel ID"], keep='last').
DropDuplicatesKeepLast(df) ==
    LET keep == {k \in 1..Len(df) : \A j \in (k + 1)..Len(df) :
                     ~(df[j].asset = df[k].asset /\ df[j].channel = df[k].channel)}
    IN  SelectSeq([k \in 1..Len(df) |-> k], LAMBDA k : k \in keep)

\* drop_duplicates(subset=["Asset ID", "Channel ID"]), keep='first': the index
\* labels (positions in the concatenated frame) of the rows kept, in order.
DropDuplicates(df) ==
    LET keep == {k \in 1..Len(df) : \A j \in 1..(k - 1) :
                     ~(df[j].asset = df[k].asset /\ df[j].channel = df[k].channel)}
    IN  SelectSeq([k \in 1..Len(df) |-> k], LAMBDA k : k \in keep)

\* Ordering by ["Channel Name", "Asset ID"].
RowLess(r1, r2) ==
    \/ StrLess(r1.name, r2.name)
    \/ r1.name = r2.name /\ StrLess(r1.asset, r2.asset)

\* Insert r after every row not greater than it (a stable sort's step).
RECURSIVE Insert(_, _)
Insert(sorted, r) ==
    IF sorted = <<>> THEN <<r>>
    ELSE IF RowLess(r, Head(sorted)) THEN <<r>> \o sorted
    ELSE <<Head(sorted)>> \o Insert(Tail(sorted), r)

RECURSIVE SortFrom(_, _, _)
SortFrom(df, k, acc) ==
    IF k > Len(df) THEN acc ELSE SortFrom(df, k + 1, Insert(acc, df[k]))

\* sort_values(...) whose result is not assigned back.
SortValuesDiscarded(df) == df

\* sort_values(["Channel Name", "Asset ID"]).reset_index(drop=True)
SortValues(df) == SortFrom(df, 1, <<>>)

\* ------------------------------------------- extract_csv_filelikes_from_zip

\* An archive entry: is_dir (info.is_dir() or an empty basename), macosx (the
\* test of line 186), hidden (the basename starts with "."), csv (the basename
\* ends with ".csv"), and the file its bytes hold.
Eligible(e) == ~e.is_dir /\ ~e.macosx /\ ~e.hidden /\ e.csv

ExtractCsvFromZip(entries) ==
    LET kept == SelectSeq(entries, Eligible)
    IN  [k \in 1..Len(kept) |-> kept[k].file]

\* ------------------------------------------------------------------- state

VARIABLES
    uploaded_excel,   \* [present, readable, ncols, rows]: the reference table
    uploaded_csvs,    \* the files uploaded directly
    uploaded_zip,     \* [present, readable, entries]
    clicked,          \* whether the Generate button is pressed in this run
    chunksize,        \* rows per batch
    pc,               \* position of the script
    outcome,          \* the final message of the run
    input_csv_items,  \* the list the file loop walks
    channel_dict,     \* the Identifier Mapping
    i,                \* number of files the loop is done with
    calls,            \* invocations of process_csv_for_channel_assets
    pos,              \* batches the current reader has yielded
    delivered,        \* row numbers the generator yielded for the current file
    results,          \* process_csv_for_channel_assets' list of subsets
    res,              \* what the last invocation returned
    log,              \* per file: was the warning shown, and matches reported
    all_results,      \* the per-file frames kept by the loop
    dedup_index,      \* index labels of final_df after drop_duplicates
    final_df          \* the Result Table, None until it is built

vars == <<uploaded_excel, uploaded_csvs, uploaded_zip, clicked, chunksize, pc,
          outcome, input_csv_items, channel_dict, i, calls, pos, delivered,
          results, res, log, all_results, dedup_index, final_df>>

inputs == <<uploaded_excel, uploaded_csvs, uploaded_zip, clicked, chunksize>>

\* The file the loop is at.
CurFile == input_csv_items[i + 1]

CurChunks == NChunks(Len(CurFile.rows), chunksize)

\* st.stop() after the message msg.
Stop(msg) == pc' = "stopped" /\ outcome' = msg

\* ----------------------------------------------------------------- actions

\* Line 237: more direct uploads than the cap.
TooManyOffByOne(n) == n > MAX_CSV_FILES + 1

TooMany(n) == n > MAX_CSV_FILES

\* Lines 236-239.
CapCheck ==
    /\ pc = "start"
    /\ IF uploaded_csvs # <<>> /\ TooMany(Len(uploaded_csvs))
       THEN Stop("too_many_csv")
       ELSE pc' = "prepare" /\ UNCHANGED outcome
    /\ UNCHANGED <<inputs, input_csv_items, channel_dict, i, calls, pos, delivered,
                   results, res, log, all_results, dedup_index, final_df>>

\* Lines 241-263.
PrepareInputs ==
    /\ pc = "prepare"
    /\ IF uploaded_zip.present
       THEN IF ~uploaded_zip.readable
            THEN Stop("zip_unreadable") /\ UNCHANGED input_csv_items
            ELSE LET extracted == ExtractCsvFromZip(uploaded_zip.entries)
                 IN  IF extracted = <<>>
                     THEN Stop("zip_no_csv") /\ UNCHANGED input_csv_items
                     ELSE IF TooMany(Len(extracted))
                     THEN Stop("zip_too_many") /\ UNCHANGED input_csv_items
                     ELSE /\ input_csv_items' = extracted
                          /\ pc' = "button"
                          /\ UNCHANGED outcome
       ELSE /\ input_csv_items' = uploaded_csvs
            /\ pc' = "button"
            /\ UNCHANGED outcome
    /\ UNCHANGED <<inputs, channel_dict, i, calls, pos, delivered,
                   results, res, log, all_results, dedup_index, final_df>>

\* Lines 266-273.
Generate ==
    /\ pc = "button"
    /\ IF ~clicked THEN pc' = "idle" /\ UNCHANGED outcome
       ELSE IF ~uploaded_excel.present THEN Stop("no_excel")
       ELSE IF input_csv_items = <<>> THEN Stop("no_inputs")
       ELSE pc' = "load" /\ UNCHANGED outcome
    /\ UNCHANGED <<inputs, input_csv_items, channel_dict, i, calls, pos, delivered,
                   results, res, log, all_results, dedup_index, final_df>>

\* Line 280 without the test.
NoChannelDataIgnored(d) == FALSE

\* Line 280: not channel_dict.
NoChannelData(d) == DOMAIN d = {}

\* Lines 277-295.
LoadChannels ==
    /\ pc = "load"
    /\ channel_dict' = LoadChannelData(uploaded_excel)
    /\ IF NoChannelData(channel_dict')
       THEN Stop("no_channel_data")
       ELSE pc' = "loop" /\ UNCHANGED outcome
    /\ i' = 0
    /\ all_results' = <<>>
    /\ UNCHANGED <<inputs, input_csv_items, calls, pos, delivered,
                   results, res, log, dedup_index, final_df>>

\* Lines 297-304, 118-122 and 41-42: the loop enters the next file and the
\* generator starts its first attempt.
OpenFile ==
    /\ pc = "loop"
    /\ i < Len(input_csv_items)
    /\ calls' = calls + 1
    /\ results' = <<>>
    /\ pos' = 0
    /\ delivered' = <<>>
    /\ pc' = "strict"
    /\ UNCHANGED <<inputs, outcome, input_csv_items, channel_dict, i, res, log,
                   all_results, dedup_index, final_df>>

\* The consumer's loop body on chunk pos + 1 of the current file.
Consume ==
    /\ results' = AppendChunk(results,
                      ProcessChunk(ChunkRows(CurFile.rows, chunksize, pos + 1),
                                   CurFile.ncols, channel_dict))
    /\ delivered' = delivered \o ChunkIdx(Len(CurFile.rows), chunksize, pos + 1)
    /\ pos' = pos + 1

\* Lines 162-165 and 306-312: the invocation returns r, the loop keeps it.
FinishFile(r, warned) ==
    /\ res' = r
    /\ all_results' = IF ~r.none /\ r.df # <<>>
                      THEN Append(all_results, r.df) ELSE all_results
    /\ log' = Append(log, [warned |-> warned,
                           found |-> IF ~r.none /\ r.df # <<>> THEN Len(r.df) ELSE 0])
    /\ i' = i + 1
    /\ pc' = "loop"

\* Lines 43-44 and 124-156: the strict reader yields a chunk.
StrictYield ==
    /\ pc = "strict"
    /\ CurFile.strictFail # <<pos>>
    /\ pos < CurChunks
    /\ Consume
    /\ UNCHANGED <<inputs, pc, outcome, input_csv_items, channel_dict, i, calls,
                   res, log, all_results, dedup_index, final_df>>

\* Lines 46-53: the strict reader raises; the generator restarts with the
\* python engine after seek(0). What the consumer appended stays in results.
StrictFail ==
    /\ pc = "strict"
    /\ CurFile.strictFail = <<pos>>
    /\ pc' = "fallback"
    /\ pos' = 0
    /\ UNCHANGED <<inputs, outcome, input_csv_items, channel_dict, i, calls,
                   delivered, results, res, log, all_results, dedup_index, final_df>>

\* Line 45: the strict reader is exhausted.
StrictEnd ==
    /\ pc = "strict"
    /\ CurFile.strictFail # <<pos>>
    /\ pos = CurChunks
    /\ FinishFile(OnCompletion(results), FALSE)
    /\ UNCHANGED <<inputs, outcome, input_csv_items, channel_dict, calls, pos,
                   delivered, results, dedup_index, final_df>>

\* Lines 54-55 and 124-156: the fallback reader yields a chunk.
FallbackYield ==
    /\ pc = "fallback"
    /\ CurFile.fallbackFail # <<pos>>
    /\ pos < CurChunks
    /\ Consume
    /\ UNCHANGED <<inputs, pc, outcome, input_csv_items, channel_dict, i, calls,
                   res, log, all_results, dedup_index, final_df>>

\* The fallback reader raises: lines 158-160 catch it.
FallbackFail ==
    /\ pc = "fallback"
    /\ CurFile.fallbackFail = <<pos>>
    /\ FinishFile(OnException(results), TRUE)
    /\ UNCHANGED <<inputs, outcome, input_csv_items, channel_dict, calls, pos,
                   delivered, results, dedup_index, final_df>>

\* The fallback reader is exhausted.
FallbackEnd ==
    /\ pc = "fallback"
    /\ CurFile.fallbackFail # <<pos>>
    /\ pos = CurChunks
    /\ FinishFile(OnCompletion(results), FALSE)
    /\ UNCHANGED <<inputs, outcome, input_csv_items, channel_dict, calls, pos,
                   delivered, results, dedup_index, final_df>>

\* Lines 314-325.
Finalize ==
    /\ pc = "loop"
    /\ i = Len(input_csv_items)
    /\ IF all_results = <<>>
       THEN Stop("no_matches") /\ UNCHANGED <<dedup_index, final_df>>
       ELSE LET df == Concat(all_results)
                kept == DropDuplicates(df)
            IN  /\ dedup_index' = kept
                /\ final_df' = Some(SortValues([k \in 1..Len(kept) |-> df[kept[k]]]))
                /\ pc' = "done"
                /\ outcome' = "success"
    /\ UNCHANGED <<inputs, input_csv_items, channel_dict, i, calls, pos, delivered,
                   results, res, log, all_results>>

Next ==
    \/ CapCheck
    \/ PrepareInputs
    \/ Generate
    \/ LoadChannels
    \/ OpenFile
    \/ StrictYield
    \/ StrictFail
    \/ StrictEnd
    \/ FallbackYield
    \/ FallbackFail
    \/ FallbackEnd
    \/ Finalize

\* ------------------------------------------------------------------ inputs

\* The rows a CSV file of Spec is made of (columns 3 and 6 of each row).
RowSet ==
    { [asset |-> <<"2">>,      channel |-> <<"A">>],
      [asset |-> <<" ", "1">>, channel |-> <<"NBSP", "B", " ">>],
      [asset |-> <<"1">>,      channel |-> NaN] }

\* Where a reader may raise: never (<<>>), or after k batches (<<k>>). Both
\* readers of a file see the same rows and the same number of columns.
FailPoints(n, c) == {<<>>} \cup {<<k>> : k \in 0..NChunks(n, c)}

\* The non-empty files of n rows with CHANNEL_COL_IDX + 1 columns; the
\* fallback attempt exists only when the strict one fails.
FilesOfRows(n, c) ==
    { [rows |-> r, ncols |-> CHANNEL_COL_IDX + 1, strictFail |-> s, fallbackFail |-> b] :
        r \in [1..n -> RowSet], s \in FailPoints(n, c), b \in FailPoints(n, c) }
    \ { f \in [rows : [1..n -> RowSet], ncols : {CHANNEL_COL_IDX + 1},
               strictFail : {<<>>}, fallbackFail : FailPoints(n, c)] :
        f.fallbackFail # <<>> }

\* The lists of non-empty files of at most budget rows in all.
RECURSIVE FileLists(_, _)
FileLists(budget, c) ==
    {<<>>} \cup
    UNION { { <<f>> \o rest : f \in FilesOfRows(n, c), rest \in FileLists(budget - n, c) } :
            n \in 1..budget }

NoZip == [present |-> FALSE, readable |-> FALSE, entries |-> <<>>]

NoExcel == [present |-> FALSE, readable |-> FALSE, ncols |-> 0, rows |-> <<>>]

Excel(ncols, rows) == [present |-> TRUE, readable |-> TRUE, ncols |-> ncols, rows |-> rows]

\* The reference table of Spec and SpecCap: A -> X, B -> Y, and a row without
\* an identifier.
MainTable ==
    Excel(2, << [id |-> <<"A", " ">>, name |-> <<"X">>],
                [id |-> <<"B">>,      name |-> <<"NBSP", "Y">>],
                [id |-> NaN,          name |-> <<"X">>] >>)

\* What is the same in every initial state.
InitRun ==
    /\ pc = "start"
    /\ outcome = "none"
    /\ input_csv_items = <<>>
    /\ channel_dict = EmptyDict
    /\ i = 0
    /\ calls = 0
    /\ pos = 0
    /\ delivered = <<>>
    /\ results = <<>>
    /\ res = None
    /\ log = <<>>
    /\ all_results = <<>>
    /\ dedup_index = <<>>
    /\ final_df = None

\* ---------------------------------------------- inputs of SpecLoad, SpecCap

\* Raw identifier cells: two that clean to the key A, 'NaN', a missing cell
\* and a blank one.
IdCells ==
    { <<"A">>, <<"NBSP", "A", " ">>, <<"N", "a", "N">>, NaN, <<" ">> }

\* Raw label cells: X, Y behind a non-breaking space, 'NAN ' and a blank one.
NameCells ==
    { <<"X">>, <<"NBSP", "Y">>, <<"N", "A", "N", " ">>, <<"NBSP">> }

TableRows(n) == [1..n -> [id : IdCells, name : NameCells]]

\* The reference tables of SpecLoad: unreadable, of no or one column, or of two
\* columns and up to MaxTableRows rows.
Tables ==
    { [present |-> TRUE, readable |-> FALSE, ncols |-> 0, rows |-> <<>>] }
    \cup { Excel(0, <<>>) }
    \cup { Excel(1, <<[id |-> c, name |-> NaN]>>) : c \in IdCells }
    \cup UNION { { Excel(2, r) : r \in TableRows(n) } : n \in 0..MaxTableRows }

Row(asset, channel) == [asset |-> asset, channel |-> channel]

File(rows, ncols, s, b) ==
    [rows |-> rows, ncols |-> ncols, strictFail |-> s, fallbackFail |-> b]

\* Five files: one that parses strictly, with a blank and a missing
\* identifier; one whose strict attempt raises after its only batch; one
\* neither attempt can parse; one of too few columns; and an empty one
\* (EmptyDataError from both engines).
FixtureFiles ==
    << File(<<Row(<<"2">>, <<"A">>), Row(<<"1">>, <<" ">>), Row(<<" ", "1">>, NaN)>>,
            CHANNEL_COL_IDX + 1, <<>>, <<>>),
       File(<<Row(<<"1", " ">>, <<"A", "NBSP">>)>>,
            CHANNEL_COL_IDX + 1, <<1>>, <<>>),
       File(<<Row(<<"1">>, <<"A">>)>>,
            CHANNEL_COL_IDX + 1, <<1>>, <<0>>),
       File(<<Row(<<"2">>, <<"A">>)>>,
            CHANNEL_COL_IDX, <<>>, <<>>),
       File(<<>>, 0, <<0>>, <<0>>) >>

\* The first n files of the fixtures repeated.
FixtureList(n) == [k \in 1..n |-> FixtureFiles[((k - 1) % Len(FixtureFiles)) + 1]]

Entry(f) == [is_dir |-> FALSE, macosx |-> FALSE, hidden |-> FALSE, csv |-> TRUE, file |-> f]

\* Entries extraction skips: a folder, a metadata entry, a hidden file and a
\* file that is no CSV.
JunkEntries ==
    << [is_dir |-> TRUE,  macosx |-> FALSE, hidden |-> FALSE, csv |-> FALSE, file |-> FixtureFiles[1]],
       [is_dir |-> FALSE, macosx |-> TRUE,  hidden |-> FALSE, csv |-> TRUE,  file |-> FixtureFiles[1]],
       [is_dir |-> FALSE, macosx |-> FALSE, hidden |-> TRUE,  csv |-> TRUE,  file |-> FixtureFiles[1]],
       [is_dir |-> FALSE, macosx |-> FALSE, hidden |-> FALSE, csv |-> FALSE, file |-> FixtureFiles[1]] >>

Zip(entries) == [present |-> TRUE, readable |-> TRUE, entries |-> entries]

\* The archives of SpecCap: none, an unreadable one, and archives of 0 to
\* MAX_CSV_FILES + 1 CSV entries with or without the skipped entries.
Zips ==
    { NoZip, [present |-> TRUE, readable |-> FALSE, entries |-> <<>>] }
    \cup { Zip([k \in 1..m |-> Entry(FixtureList(m)[k])]) : m \in 0..(MAX_CSV_FILES + 1) }
    \cup { Zip(JunkEntries \o [k \in 1..m |-> Entry(FixtureList(m)[k])]) :
             m \in 0..(MAX_CSV_FILES + 1) }

\* Direct uploads: every list of files within the row budget, and the list of
\* the five fixture files.
Init ==
    /\ uploaded_excel = MainTable
    /\ chunksize \in 1..MaxChunkSize
    /\ uploaded_csvs \in FileLists(MaxTotalRows, chunksize) \cup {FixtureList(Len(FixtureFiles))}
    /\ uploaded_zip = NoZip
    /\ clicked = TRUE
    /\ InitRun

Spec == Init /\ [][Next]_vars

\* Every reference table, over a fixed list of files.
InitLoad ==
    /\ uploaded_excel \in Tables
    /\ chunksize = MaxChunkSize
    /\ uploaded_csvs = FixtureList(Len(FixtureFiles))
    /\ uploaded_zip = NoZip
    /\ clicked = TRUE
    /\ InitRun

SpecLoad == InitLoad /\ [][Next]_vars

\* Every number of uploads and of archive entries up to one past the cap.
InitCap ==
    /\ uploaded_excel \in {MainTable, NoExcel}
    /\ chunksize = MaxChunkSize
    /\ uploaded_csvs \in { FixtureList(n) : n \in 0..(MAX_CSV_FILES + 1) }
    /\ uploaded_zip \in Zips
    /\ clicked \in BOOLEAN
    /\ InitRun

SpecCap == InitCap /\ [][Next]_vars

\* ------------------------------------------------------------------ claims

\* Both attempts at file f raise.
FileFails(f) == f.strictFail # <<>> /\ f.fallbackFail # <<>>

\* The loop over the files has run, whatever it found.
LoopOver ==
    \/ pc = "done"
    \/ pc = "stopped" /\ outcome = "no_matches"
    \/ pc = "loop" /\ i = Len(input_csv_items)

\* The mapping has been loaded.
Loaded ==
    \/ pc \in {"loop", "strict", "fallback", "done"}
    \/ pc = "stopped" /\ outcome \in {"no_matches", "no_channel_data"}

Key(r) == <<r.asset, r.channel>>

Range(seq) == {seq[k] : k \in 1..Len(seq)}

\* The rows of f whose cleaned column 6 is a key of the mapping.
MatchingRows(f) ==
    {k \in 1..Len(f.rows) : Clean(f.rows[k].channel) \in DOMAIN channel_dict}

\* The batches a file that does not fail hands to the consumer when read
\* alone: those of the strict attempt, then, if it raised, those of the fallback.
BatchesOf(f) ==
    LET all == [k \in 1..NChunks(Len(f.rows), chunksize) |-> k]
    IN  IF f.strictFail = <<>> THEN all
        ELSE [k \in 1..f.strictFail[1] |-> k] \o all

RECURSIVE Feed(_, _, _)
Feed(f, ks, acc) ==
    IF ks = <<>> THEN acc
    ELSE Feed(f, Tail(ks),
              AppendChunk(acc, ProcessChunk(ChunkRows(f.rows, chunksize, Head(ks)),
                                            f.ncols, channel_dict)))

\* What the loop keeps of a list of files none of which fails.
RECURSIVE KeptOf(_)
KeptOf(files) ==
    IF files = <<>> THEN <<>>
    ELSE LET r == OnCompletion(Feed(Head(files), BatchesOf(Head(files)), <<>>))
         IN  (IF r.none THEN <<>> ELSE <<r.df>>) \o KeptOf(Tail(files))

\* C1: the batches delivered for a file that was read to its end cover each
\* of its rows exactly once, in row order.
C1_EachRowOnce ==
    (pc = "loop" /\ i > 0 /\ ~log[i].warned)
        => delivered = [k \in 1..Len(input_csv_items[i].rows) |-> k]

\* C2: a file both attempts fail on contributes nothing and is reported with
\* zero matches, and what the loop has kept is what it keeps of the list
\* without the failed files.
C2_FailedFileIsolated ==
    (pc = "loop" \/ LoopOver) =>
        /\ \A j \in 1..i :
               FileFails(input_csv_items[j]) => log[j].warned /\ log[j].found = 0
        /\ (pc = "loop" /\ i > 0 /\ FileFails(input_csv_items[i])) => res = None
        /\ all_results =
               KeptOf(SelectSeq(SubSeq(input_csv_items, 1, i), LAMBDA f : ~FileFails(f)))

\* A file failed after its strict attempt had yielded a batch with a match,
\* and another file's records were kept.
C2_Witness ==
    /\ pc = "done"
    /\ \E j \in 1..Len(input_csv_items) :
           LET f == input_csv_items[j]
           IN  /\ FileFails(f)
               /\ f.strictFail[1] >= 1
               /\ ProcessChunk(ChunkRows(f.rows, chunksize, 1), f.ncols, channel_dict) # <<>>
    /\ all_results # <<>>

\* C3: "no matches anywhere" is the final message only if no file failed.
C3_NoMatchesOnlyWithoutFailure ==
    (pc = "stopped" /\ outcome = "no_matches")
        => \A j \in 1..Len(log) : ~log[j].warned

\* C4: at most MAX_CSV_FILES files are processed, and a run given more
\* direct uploads, or an archive of more eligible entries, processes none.
C4_CapEnforced ==
    /\ calls <= MAX_CSV_FILES
    /\ (\/ Len(uploaded_csvs) > MAX_CSV_FILES
        \/ /\ uploaded_zip.present
           /\ Cardinality({k \in 1..Len(uploaded_zip.entries) :
                              Eligible(uploaded_zip.entries[k])}) > MAX_CSV_FILES)
       => /\ calls = 0
          /\ final_df = None
          /\ pc \in {"start", "prepare", "stopped"}

\* A run of MAX_CSV_FILES + 1 files was rejected.
C4_Witness ==
    /\ pc = "stopped"
    /\ outcome \in {"too_many_csv", "zip_too_many"}
    /\ \/ Len(uploaded_csvs) = MAX_CSV_FILES + 1
       \/ Len(ExtractCsvFromZip(uploaded_zip.entries)) = MAX_CSV_FILES + 1

\* C5: a file of at least 7 columns that is read to its end returns as many
\* records as it has rows whose cleaned column 6 is a key.
C5_CountEqualsMatchingRows ==
    (/\ pc = "loop"
     /\ i > 0
     /\ ~FileFails(input_csv_items[i])
     /\ input_csv_items[i].ncols > CHANNEL_COL_IDX)
        => Len(res.df) = Cardinality(MatchingRows(input_csv_items[i]))

\* The (Asset ID, Channel ID) pairs of the matching rows of the files read
\* to their end.
PairsOfFiles ==
    UNION { { <<Clean(f.rows[k].asset), Clean(f.rows[k].channel)>> : k \in MatchingRows(f) } :
            f \in { g \in Range(input_csv_items) :
                      ~FileFails(g) /\ g.ncols > CHANNEL_COL_IDX } }

\* C6: the Result Table holds one record per pair, a record for every pair of
\* a successfully processed file, and the rows kept are the first occurrences
\* in the concatenation of the per-file frames.
C6_Deduplicated ==
    pc = "done" =>
        LET T == final_df.df
            df == Concat(all_results)
        IN  /\ \A a, b \in 1..Len(T) : Key(T[a]) = Key(T[b]) => a = b
            /\ {Key(T[a]) : a \in 1..Len(T)} = PairsOfFiles
            /\ Len(T) = Len(dedup_index)
            /\ \A k \in 1..Len(dedup_index) :
                   /\ dedup_index[k] \in 1..Len(df)
                   /\ \A j \in 1..(dedup_index[k] - 1) : Key(df[j]) # Key(df[dedup_index[k]])
                   /\ k > 1 => dedup_index[k - 1] < dedup_index[k]
            /\ Range(T) = {df[dedup_index[k]] : k \in 1..Len(dedup_index)}

\* Two files held the same pair and the table is shorter than the concatenation.
C6_Witness ==
    /\ pc = "done"
    /\ Len(all_results) >= 2
    /\ Range(all_results[1]) \cap Range(all_results[2]) # {}
    /\ Len(final_df.df) < Len(Concat(all_results))

\* The concatenated frame's rows left by drop_duplicates, in their order.
DedupRows ==
    LET df == Concat(all_results)
    IN  [k \in 1..Len(dedup_index) |-> df[dedup_index[k]]]

\* C7: the Result Table is the deduplicated records in ascending
\* (label, extracted-value) order.
C7_Sorted ==
    pc = "done" =>
        LET T == final_df.df
        IN  /\ Len(T) = Len(DedupRows)
            /\ Range(T) = Range(DedupRows)
            /\ \A k \in 1..(Len(T) - 1) :
                   \/ StrLess(T[k].name, T[k + 1].name)
                   \/ /\ T[k].name = T[k + 1].name
                      /\ (T[k].asset = T[k + 1].asset \/ StrLess(T[k].asset, T[k + 1].asset))

\* The sort moved a record.
C7_Witness ==
    /\ pc = "done"
    /\ Len(final_df.df) >= 2
    /\ final_df.df # DedupRows

\* A cleaned string the mapping may hold.
ValidStr(s) ==
    /\ s # <<>>
    /\ Lower(s) # <<"n", "a", "n">>
    /\ ~IsSpace(s[1])
    /\ ~IsSpace(s[Len(s)])

\* The rows of the reference table that are kept.
ValidRows ==
    {k \in 1..Len(uploaded_excel.rows) :
        /\ ValidStr(Clean(uploaded_excel.rows[k].id))
        /\ ValidStr(Clean(uploaded_excel.rows[k].name))}

\* C8: keys and values of the mapping are non-empty, not 'nan' in any case
\* and trimmed; the keys are those of the rows passing this, each with the
\* label of its last such row; the mapping of an unreadable table or of one
\* of fewer than two columns is empty.
C8_MappingValid ==
    Loaded =>
        /\ \A key \in DOMAIN channel_dict : ValidStr(key) /\ ValidStr(channel_dict[key])
        /\ (~uploaded_excel.readable \/ uploaded_excel.ncols < 2) => DOMAIN channel_dict = {}
        /\ (uploaded_excel.readable /\ uploaded_excel.ncols >= 2) =>
               /\ DOMAIN channel_dict = {Clean(uploaded_excel.rows[k].id) : k \in ValidRows}
               /\ \A k \in ValidRows :
                      (\A j \in ValidRows : j > k =>
                           Clean(uploaded_excel.rows[j].id) # Clean(uploaded_excel.rows[k].id))
                      => channel_dict[Clean(uploaded_excel.rows[k].id)]
                             = Clean(uploaded_excel.rows[k].name)

\* A mapping was built from a table with a row that was dropped.
C8_Witness ==
    /\ Loaded
    /\ DOMAIN channel_dict # {}
    /\ Cardinality(ValidRows) < Len(uploaded_excel.rows)

\* C9: a run whose reference table gives an empty mapping processes no file
\* and builds no Result Table, and once the mapping is loaded the run is stopped.
C9_EmptyMappingHalts ==
    LoadChannelData(uploaded_excel) = EmptyDict =>
        /\ calls = 0
        /\ final_df = None
        /\ pc \notin {"loop", "strict", "fallback", "done"}
        /\ Loaded => pc = "stopped" /\ outcome = "no_channel_data"

\* A readable two-column table without a valid row stopped the run.
C9_Witness ==
    /\ pc = "stopped"
    /\ outcome = "no_channel_data"
    /\ uploaded_excel.readable
    /\ uploaded_excel.ncols >= 2
    /\ uploaded_excel.rows # <<>>

\* Every record of the current file, of the frames kept and of the table.
AllRecords ==
    Range(Concat(results)) \cup Range(res.df) \cup Range(Concat(all_results))
        \cup Range(final_df.df)

\* C10: every record's identifier is a key of the mapping, never blank or
\* 'nan', with the mapping's label for it, and the mapping stays the one loaded.
C10_JoinSound ==
    /\ \A r \in AllRecords :
           /\ r.channel \in DOMAIN channel_dict
           /\ r.name = channel_dict[r.channel]
           /\ r.channel # <<>>
           /\ r.channel # <<"n", "a", "n">>
    /\ Loaded => channel_dict = LoadChannelData(uploaded_excel)

\* Files with a row without identifier, a row with a blank one and a row
\* whose identifier needed cleaning were read to their end and the table was built.
C10_Witness ==
    /\ pc = "done"
    /\ \E f \in Range(input_csv_items) :
           /\ ~FileFails(f)
           /\ f.ncols > CHANNEL_COL_IDX
           /\ \E k \in 1..Len(f.rows) : f.rows[k].channel = NaN
           /\ \E k \in 1..Len(f.rows) :
                  f.rows[k].channel # NaN /\ Clean(f.rows[k].channel) = <<>>
    /\ \E f \in Range(input_csv_items) :
           /\ ~FileFails(f)
           /\ \E k \in MatchingRows(f) : f.rows[k].channel # Clean(f.rows[k].channel)

====
